---- MODULE Spec2Model ----
(***************************************************************************)
(* Model of accounts/forms.py: the credential and identity validation      *)
(* forms (sign-in, sign-up, resend activation code, restore password,      *)
(* change e-mail, remind username) over the identity store (the User       *)
(* table) and the activation-record store (the Activation table).          *)
(*                                                                         *)
(* Strings are sequences of characters so that the case folding of         *)
(* email__iexact is computed, not assumed.  A request is one form          *)
(* validation (all clean_<field> methods, in field order), optionally      *)
(* followed by the view's use of the valid form, and then ends.            *)
(***************************************************************************)
EXTENDS Integers, Sequences, FiniteSets

VARIABLES
    users,        \* the User table, in primary-key order: users[id]
    activations,  \* activations[id]: created_at of the user's activation records
    now,          \* timezone.now(), in hours
    form          \* the form of the request being served, NoForm between requests

vars == <<users, activations, now, form>>

\* --------------------------------------------------------------- bounds
MaxUsers == 2
MaxActivations == 2
MaxTime == 24

\* timedelta(hours=24)
CooldownHours == 24

\* ------------------------------------------------------------- strings
Empty == <<>>

Emails == {<<"a", "@">>, <<"A", "@">>, <<"b", "@">>}
Usernames == {<<"u">>} \cup Emails
Passwords == {<<"p">>, <<"q">>}
TickSteps == {12, 24}

LowerChar(c) == CASE c = "A" -> "a" [] c = "B" -> "b" [] OTHER -> c

Lower(s) == [i \in DOMAIN s |-> LowerChar(s[i])]

\* the ORM's field__iexact comparison
iexact(a, b) == Lower(a) = Lower(b)

\* the opaque password hash kept by the identity store
make_password(raw) == <<"#">> \o raw

\* ------------------------------------------------------ error messages
NoError == "ok"
InvalidCredential == "Yanlis sifre girisi yaptiniz."
NotFoundUsername == "Boyle bir kullanici bulunmamaktadir."
NotFoundEmail == "Bu eposta uzerine kayitli bir kullanici bulunmamaktadir."
NotFoundEmailOrUsername == "Bu eposta veya kullanici adi uzerine kayitli bir hesap bulunmamaktadir."
NotActivated == "Bu hesap henuz aktif degil."
AlreadyActivated == "Bu hesap halihazirda aktif hale getirilmis."
EmailTaken == "Bu eposta adresini kullanamazsiniz."
SameEmail == "Lutfen baska bir eposta adresi giriniz."
NoActivationRecord == "Aktivasyon kodu bulunamadi."
NoActivationRecordViaEmail == "Aktivasyon kodu bulunamadi"
RateLimited == "Aktivasyon kodunuz halihazirda gonderilmistir. 24 saat icerisinde sadece bir adet kod talebinde bulunabilirsiniz."
RateLimitedViaEmail == "Aktivasyon kodunuz hali hazirda gonderilmistir. 24 saat icerisinde sadece bir adet kod talebinde bulunabilirsiniz."
UsernameTaken == "A user with that username already exists."

\* ------------------------------------------------------ identity store
None == 0
NoActivation == -1

Ids == DOMAIN users

\* User.objects.filter(username=s)
filter_username(s) == {i \in Ids : users[i].username = s}

\* User.objects.filter(email__iexact=s)
filter_email_iexact(s) == {i \in Ids : iexact(users[i].email, s)}

\* User.objects.filter(Q(username=s) | Q(email__iexact=s))
filter_email_or_username(s) == filter_username(s) \cup filter_email_iexact(s)

\* QuerySet.first(): the row with the lowest primary key, None when empty
first(S) == IF S = {} THEN None ELSE CHOOSE i \in S : \A j \in S : i <= j

\* QuerySet.exists()
exists(S) == S # {}

\* user.check_password(password)
check_password(uid, password) == users[uid].password = make_password(password)

\* user.activation_set.first(): the user's latest activation record
activation_set_first(uid) ==
    IF activations[uid] = {} THEN NoActivation
    ELSE CHOOSE t \in activations[uid] : \A s \in activations[uid] : s <= t

\* the cooldown comparison with its direction reversed
created_before_shift(created_at, t) == created_at < t - CooldownHours

\* activation.created_at > timezone.now() - timedelta(hours=24)
created_after_shift(created_at, t) == created_at > t - CooldownHours

\* the outcome of one clean_<field> method: the message of the ValidationError
\* it raised (NoError when it returned) and self.user_cache after it
Result(error, user_cache) == [error |-> error, user_cache |-> user_cache]

\* ------------------------------------------------------- clean methods
\* SignIn.clean_password without the user_cache guard's password check
SignIn_clean_password_unchecked(user_cache, password) == Result(NoError, user_cache)

SignIn_clean_password(user_cache, password) ==
    IF user_cache = None THEN Result(NoError, user_cache)
    ELSE IF ~check_password(user_cache, password)
         THEN Result(InvalidCredential, user_cache)
         ELSE Result(NoError, user_cache)

SignInViaUsernameForm_field_order(use_remember_me) ==
    IF use_remember_me THEN <<"username", "password", "remember_me">>
    ELSE <<"username", "password">>

SignInViaUsernameForm_clean_username(username) ==
    LET user == first(filter_username(username))
    IN  IF user = None THEN Result(NotFoundUsername, None)
        ELSE IF ~users[user].is_active THEN Result(NotActivated, None)
        ELSE Result(NoError, user)

SignInViaEmailForm_field_order(use_remember_me) ==
    IF use_remember_me THEN <<"email", "password", "remember_me">>
    ELSE <<"email", "password">>

SignInViaEmailForm_clean_email(email) ==
    LET user == first(filter_email_iexact(email))
    IN  IF user = None THEN Result(NotFoundEmail, None)
        ELSE IF ~users[user].is_active THEN Result(NotActivated, None)
        ELSE Result(NoError, user)

SignInViaEmailOrUsernameForm_field_order(use_remember_me) ==
    IF use_remember_me THEN <<"email_or_username", "password", "remember_me">>
    ELSE <<"email_or_username", "password">>

SignInViaEmailOrUsernameForm_clean_email_or_username(email_or_username) ==
    LET user == first(filter_email_or_username(email_or_username))
    IN  IF user = None THEN Result(NotFoundEmailOrUsername, None)
        ELSE IF ~users[user].is_active THEN Result(NotActivated, None)
        ELSE Result(NoError, user)

\* SignUpForm.clean_email comparing the e-mail case-sensitively
SignUpForm_clean_email_exact(email) ==
    IF exists({i \in Ids : users[i].email = email})
    THEN Result(EmailTaken, None)
    ELSE Result(NoError, None)

SignUpForm_clean_email(email) ==
    IF exists(filter_email_iexact(email))
    THEN Result(EmailTaken, None)
    ELSE Result(NoError, None)

\* ResendActivationCodeForm.clean_email_or_username without the
\* "if not activation" check
ResendActivationCodeForm_clean_email_or_username_unguarded(email_or_username) ==
    LET user == first(filter_email_or_username(email_or_username))
    IN  IF user = None THEN Result(NotFoundEmailOrUsername, None)
        ELSE IF users[user].is_active THEN Result(NotActivated, None)
        ELSE IF created_after_shift(activation_set_first(user), now)
             THEN Result(RateLimited, None)
        ELSE Result(NoError, user)

ResendActivationCodeForm_clean_email_or_username(email_or_username) ==
    LET user == first(filter_email_or_username(email_or_username))
    IN  IF user = None THEN Result(NotFoundEmailOrUsername, None)
        ELSE IF users[user].is_active THEN Result(NotActivated, None)
        ELSE LET activation == activation_set_first(user)
             IN  IF activation = NoActivation
                 THEN Result(NoActivationRecord, None)
                 ELSE IF created_after_shift(activation, now)
                      THEN Result(RateLimited, None)
                      ELSE Result(NoError, user)

ResendActivationCodeViaEmailForm_clean_email(email) ==
    LET user == first(filter_email_iexact(email))
    IN  IF user = None THEN Result(NotFoundEmail, None)
        ELSE IF users[user].is_active THEN Result(AlreadyActivated, None)
        ELSE LET activation == activation_set_first(user)
             IN  IF activation = NoActivation
                 THEN Result(NoActivationRecordViaEmail, None)
                 ELSE IF created_after_shift(activation, now)
                      THEN Result(RateLimitedViaEmail, None)
                      ELSE Result(NoError, user)

RestorePasswordForm_clean_email(email) ==
    LET user == first(filter_email_iexact(email))
    IN  IF user = None THEN Result(NotFoundEmail, None)
        ELSE IF ~users[user].is_active THEN Result(NotActivated, None)
        ELSE Result(NoError, user)

\* RestorePasswordViaEmailOrUsernameForm.clean_email_or_username caching the
\* user before the is_active check
RestorePasswordViaEmailOrUsernameForm_clean_email_or_username_early(email_or_username) ==
    LET user == first(filter_email_or_username(email_or_username))
    IN  IF user = None THEN Result(NotFoundEmailOrUsername, None)
        ELSE IF ~users[user].is_active THEN Result(NotActivated, user)
        ELSE Result(NoError, user)

RestorePasswordViaEmailOrUsernameForm_clean_email_or_username(email_or_username) ==
    LET user == first(filter_email_or_username(email_or_username))
    IN  IF user = None THEN Result(NotFoundEmailOrUsername, None)
        ELSE IF ~users[user].is_active THEN Result(NotActivated, None)
        ELSE Result(NoError, user)

\* ChangeEmailForm.clean_email without ~Q(id=self.user.id)
ChangeEmailForm_clean_email_with_self(user, email) ==
    IF email = users[user].email THEN Result(SameEmail, None)
    ELSE IF exists(filter_email_iexact(email)) THEN Result(EmailTaken, None)
    ELSE Result(NoError, None)

\* ChangeEmailForm.clean_email without the uniqueness query
ChangeEmailForm_clean_email_no_query(user, email) ==
    IF email = users[user].email THEN Result(SameEmail, None)
    ELSE Result(NoError, None)

ChangeEmailForm_clean_email(user, email) ==
    IF email = users[user].email THEN Result(SameEmail, None)
    ELSE IF exists(filter_email_iexact(email) \ {user}) THEN Result(EmailTaken, None)
    ELSE Result(NoError, None)

RemindUsernameForm_clean_email(email) ==
    LET user == first(filter_email_iexact(email))
    IN  IF user = None THEN Result(NotFoundEmail, None)
        ELSE IF ~users[user].is_active THEN Result(NotActivated, None)
        ELSE Result(NoError, user)
\* ------------------------------------------------------ form validation
Data(username, email, email_or_username, password) ==
    [username |-> username, email |-> email,
     email_or_username |-> email_or_username, password |-> password]

NoForm ==
    [cls |-> "none", phase |-> "none", data |-> Data(Empty, Empty, Empty, Empty),
     user |-> None, errors |-> {}, user_cache |-> None]

\* a ValidationError raised outside the field's clean method is a non-field error
add_error_non_field(field, result) ==
    IF result.error = NoError THEN {} ELSE {<<"__all__", result.error>>}

\* a ValidationError raised by clean_<field> is recorded under that field
add_error(field, result) ==
    IF result.error = NoError THEN {} ELSE {<<field, result.error>>}

\* the clean_<field> method the class defines for a field; a field without one
\* (remember_me) leaves the form as it is
clean_field(cls, field, data, user_cache) ==
    CASE field = "password" -> SignIn_clean_password(user_cache, data.password)
      [] field = "username" /\ cls = "SignInViaUsernameForm" ->
            SignInViaUsernameForm_clean_username(data.username)
      [] field = "email" /\ cls = "SignInViaEmailForm" ->
            SignInViaEmailForm_clean_email(data.email)
      [] field = "email_or_username" /\ cls = "SignInViaEmailOrUsernameForm" ->
            SignInViaEmailOrUsernameForm_clean_email_or_username(data.email_or_username)
      [] OTHER -> Result(NoError, user_cache)

\* the fields are cleaned one after the other, in field_order
RECURSIVE clean_fields(_, _, _, _, _)
clean_fields(cls, order, data, errors, user_cache) ==
    IF order = <<>> THEN [errors |-> errors, user_cache |-> user_cache]
    ELSE LET result == clean_field(cls, Head(order), data, user_cache)
         IN  clean_fields(cls, Tail(order), data,
                          errors \cup add_error(Head(order), result),
                          result.user_cache)

Validated(cls, data, user, errors, user_cache) ==
    [cls |-> cls, phase |-> "validated", data |-> data, user |-> user,
     errors |-> errors, user_cache |-> user_cache]

SignInViaUsernameForm_is_valid(username, password, use_remember_me) ==
    /\ form = NoForm
    /\ LET data == Data(username, Empty, Empty, password)
           done == clean_fields("SignInViaUsernameForm",
                                SignInViaUsernameForm_field_order(use_remember_me),
                                data, {}, None)
       IN  form' = Validated("SignInViaUsernameForm", data, None,
                             done.errors, done.user_cache)
    /\ UNCHANGED <<users, activations, now>>

SignInViaEmailForm_is_valid(email, password, use_remember_me) ==
    /\ form = NoForm
    /\ LET data == Data(Empty, email, Empty, password)
           done == clean_fields("SignInViaEmailForm",
                                SignInViaEmailForm_field_order(use_remember_me),
                                data, {}, None)
       IN  form' = Validated("SignInViaEmailForm", data, None,
                             done.errors, done.user_cache)
    /\ UNCHANGED <<users, activations, now>>

SignInViaEmailOrUsernameForm_is_valid(email_or_username, password, use_remember_me) ==
    /\ form = NoForm
    /\ LET data == Data(Empty, Empty, email_or_username, password)
           done == clean_fields("SignInViaEmailOrUsernameForm",
                                SignInViaEmailOrUsernameForm_field_order(use_remember_me),
                                data, {}, None)
       IN  form' = Validated("SignInViaEmailOrUsernameForm", data, None,
                             done.errors, done.user_cache)
    /\ UNCHANGED <<users, activations, now>>

\* the model form's unique check of User.username
SignUpForm_validate_unique(username) ==
    IF exists(filter_username(username)) THEN Result(UsernameTaken, None)
    ELSE Result(NoError, None)

SignUpForm_is_valid(username, email, password) ==
    /\ form = NoForm
    /\ form' = Validated("SignUpForm", Data(username, email, Empty, password), None,
                         add_error("email", SignUpForm_clean_email(email))
                           \cup add_error("username", SignUpForm_validate_unique(username)),
                         None)
    /\ UNCHANGED <<users, activations, now>>

ResendActivationCodeForm_is_valid(email_or_username) ==
    /\ form = NoForm
    /\ LET result == ResendActivationCodeForm_clean_email_or_username(email_or_username)
       IN  form' = Validated("ResendActivationCodeForm",
                             Data(Empty, Empty, email_or_username, Empty), None,
                             add_error("email_or_username", result), result.user_cache)
    /\ UNCHANGED <<users, activations, now>>

ResendActivationCodeViaEmailForm_is_valid(email) ==
    /\ form = NoForm
    /\ LET result == ResendActivationCodeViaEmailForm_clean_email(email)
       IN  form' = Validated("ResendActivationCodeViaEmailForm",
                             Data(Empty, email, Empty, Empty), None,
                             add_error("email", result), result.user_cache)
    /\ UNCHANGED <<users, activations, now>>

RestorePasswordForm_is_valid(email) ==
    /\ form = NoForm
    /\ LET result == RestorePasswordForm_clean_email(email)
       IN  form' = Validated("RestorePasswordForm",
                             Data(Empty, email, Empty, Empty), None,
                             add_error("email", result), result.user_cache)
    /\ UNCHANGED <<users, activations, now>>

RestorePasswordViaEmailOrUsernameForm_is_valid(email_or_username) ==
    /\ form = NoForm
    /\ LET result ==
               RestorePasswordViaEmailOrUsernameForm_clean_email_or_username(email_or_username)
       IN  form' = Validated("RestorePasswordViaEmailOrUsernameForm",
                             Data(Empty, Empty, email_or_username, Empty), None,
                             add_error("email_or_username", result), result.user_cache)
    /\ UNCHANGED <<users, activations, now>>

ChangePasswordForm_is_valid(user, old_password, new_password) ==
    /\ form = NoForm
    /\ form' = Validated("ChangePasswordForm",
                         Data(Empty, Empty, Empty, old_password), user, {}, None)
    /\ UNCHANGED <<users, activations, now>>

ChangeProfileForm_is_valid ==
    /\ form = NoForm
    /\ form' = Validated("ChangeProfileForm",
                         Data(Empty, Empty, Empty, Empty), None, {}, None)
    /\ UNCHANGED <<users, activations, now>>

ChangeEmailForm_is_valid(user, email) ==
    /\ form = NoForm
    /\ form' = Validated("ChangeEmailForm", Data(Empty, email, Empty, Empty), user,
                         add_error("email", ChangeEmailForm_clean_email(user, email)),
                         None)
    /\ UNCHANGED <<users, activations, now>>

RemindUsernameForm_is_valid(email) ==
    /\ form = NoForm
    /\ LET result == RemindUsernameForm_clean_email(email)
       IN  form' = Validated("RemindUsernameForm",
                             Data(Empty, email, Empty, Empty), None,
                             add_error("email", result), result.user_cache)
    /\ UNCHANGED <<users, activations, now>>

\* ------------------------------------------- the stores' other writers
\* the sign-up view saves the valid form: a new identity, inactive with one
\* activation request when activation by e-mail is enabled
SignUp_form_valid(enable_activation) ==
    /\ form.cls = "SignUpForm" /\ form.phase = "validated" /\ form.errors = {}
    /\ Len(users) < MaxUsers
    /\ users' = Append(users, [username |-> form.data.username,
                               email |-> form.data.email,
                               password |-> make_password(form.data.password),
                               is_active |-> ~enable_activation])
    /\ activations' = Append(activations, IF enable_activation THEN {now} ELSE {})
    /\ form' = [form EXCEPT !.phase = "applied"]
    /\ UNCHANGED now

\* the change-e-mail view stores the validated e-mail
ChangeEmail_form_valid ==
    /\ form.cls = "ChangeEmailForm" /\ form.phase = "validated" /\ form.errors = {}
    /\ users' = [users EXCEPT ![form.user].email = form.data.email]
    /\ form' = [form EXCEPT !.phase = "applied"]
    /\ UNCHANGED <<activations, now>>

\* the resend view records a new activation request for the cached identity
ResendActivationCode_form_valid ==
    /\ form.cls \in {"ResendActivationCodeForm", "ResendActivationCodeViaEmailForm"}
    /\ form.phase = "validated" /\ form.errors = {}
    /\ Cardinality(activations[form.user_cache]) < MaxActivations
    /\ activations' = [activations EXCEPT ![form.user_cache] = @ \cup {now}]
    /\ form' = [form EXCEPT !.phase = "applied"]
    /\ UNCHANGED <<users, now>>

\* the request ends; forms are request-scoped
request_finished ==
    /\ form # NoForm
    /\ form' = NoForm
    /\ UNCHANGED <<users, activations, now>>

\* an identity confirms its e-mail: it becomes active, its requests are used up
Activate(user) ==
    /\ form = NoForm
    /\ ~users[user].is_active
    /\ activations[user] # {}
    /\ users' = [users EXCEPT ![user].is_active = TRUE]
    /\ activations' = [activations EXCEPT ![user] = {}]
    /\ UNCHANGED <<now, form>>

\* an administrator deactivates an identity
Deactivate(user) ==
    /\ form = NoForm
    /\ users[user].is_active
    /\ users' = [users EXCEPT ![user].is_active = FALSE]
    /\ UNCHANGED <<activations, now, form>>

Tick(step) ==
    /\ form = NoForm
    /\ now + step <= MaxTime
    /\ now' = now + step
    /\ UNCHANGED <<users, activations, form>>

\* ------------------------------------------------------- specification
Init ==
    /\ users = <<>>
    /\ activations = <<>>
    /\ now = 0
    /\ form = NoForm

Validate ==
    \/ \E u \in Usernames, p \in Passwords, r \in BOOLEAN :
           SignInViaUsernameForm_is_valid(u, p, r)
    \/ \E e \in Emails, p \in Passwords, r \in BOOLEAN :
           SignInViaEmailForm_is_valid(e, p, r)
    \/ \E s \in Usernames, p \in Passwords, r \in BOOLEAN :
           SignInViaEmailOrUsernameForm_is_valid(s, p, r)
    \/ \E u \in Usernames, e \in Emails, p \in Passwords : SignUpForm_is_valid(u, e, p)
    \/ \E s \in Usernames : ResendActivationCodeForm_is_valid(s)
    \/ \E e \in Emails : ResendActivationCodeViaEmailForm_is_valid(e)
    \/ \E e \in Emails : RestorePasswordForm_is_valid(e)
    \/ \E s \in Usernames : RestorePasswordViaEmailOrUsernameForm_is_valid(s)
    \/ \E i \in Ids, p \in Passwords, q \in Passwords : ChangePasswordForm_is_valid(i, p, q)
    \/ ChangeProfileForm_is_valid
    \/ \E i \in Ids, e \in Emails : ChangeEmailForm_is_valid(i, e)
    \/ \E e \in Emails : RemindUsernameForm_is_valid(e)

Next ==
    \/ Validate
    \/ \E a \in BOOLEAN : SignUp_form_valid(a)
    \/ ChangeEmail_form_valid
    \/ ResendActivationCode_form_valid
    \/ request_finished
    \/ \E i \in Ids : Activate(i)
    \/ \E i \in Ids : Deactivate(i)
    \/ \E d \in TickSteps : Tick(d)

Spec == Init /\ [][Next]_vars
\* ---------------------------------------------------------- properties
SignInForms ==
    {"SignInViaUsernameForm", "SignInViaEmailForm", "SignInViaEmailOrUsernameForm"}

ResendForms == {"ResendActivationCodeForm", "ResendActivationCodeViaEmailForm"}

RestoreForms == {"RestorePasswordForm", "RestorePasswordViaEmailOrUsernameForm"}

UserCacheForms == SignInForms \cup ResendForms \cup RestoreForms \cup {"RemindUsernameForm"}

\* the field that carries the identifier of a form
IdentField(cls) ==
    CASE cls = "SignInViaUsernameForm" -> "username"
      [] cls \in {"SignInViaEmailOrUsernameForm", "ResendActivationCodeForm",
                  "RestorePasswordViaEmailOrUsernameForm"} -> "email_or_username"
      [] OTHER -> "email"

Identifier == form.data[IdentField(form.cls)]

SameIgnoringCase(a, b) ==
    /\ Len(a) = Len(b)
    /\ \A k \in 1..Len(a) :
           \/ a[k] = b[k]
           \/ {a[k], b[k]} \in {{"a", "A"}, {"b", "B"}}

\* the identity records the submitted identifier matches
Matched ==
    {i \in Ids :
        \/ /\ IdentField(form.cls) \in {"username", "email_or_username"}
           /\ users[i].username = Identifier
        \/ /\ IdentField(form.cls) \in {"email", "email_or_username"}
           /\ SameIgnoringCase(users[i].email, Identifier)}

\* the identity the identifier resolves to: the first matching row
Resolved == IF Matched = {} THEN None ELSE CHOOSE i \in Matched : \A j \in Matched : i <= j

ValidatedAs(classes) == form.phase = "validated" /\ form.cls \in classes

Succeeded == form.errors = {}

ErrorsOn(field) == {e[2] : e \in {x \in form.errors : x[1] = field}}

PasswordMatches(i) == users[i].password = <<"#">> \o form.data.password

NotFoundOf(cls) ==
    CASE cls = "SignInViaUsernameForm" -> NotFoundUsername
      [] cls \in {"SignInViaEmailOrUsernameForm", "ResendActivationCodeForm",
                  "RestorePasswordViaEmailOrUsernameForm"} -> NotFoundEmailOrUsername
      [] OTHER -> NotFoundEmail

RateLimitedOf(cls) ==
    IF cls = "ResendActivationCodeForm" THEN RateLimited ELSE RateLimitedViaEmail

NoActivationRecordOf(cls) ==
    IF cls = "ResendActivationCodeForm" THEN NoActivationRecord
    ELSE NoActivationRecordViaEmail

\* C1 as stated: in a sign-in form, whenever the submitted password does not
\* match the hash of the identity the identifier refers to, the password
\* field carries the wrong-password error.
C1_WrongPasswordAlwaysReported ==
    ValidatedAs(SignInForms) /\ Resolved # None /\ ~PasswordMatches(Resolved)
        => InvalidCredential \in ErrorsOn("password")

\* C1 amended: in a sign-in form, whenever the identifier resolves to an
\* ACTIVE identity and the submitted password does not match its hash, the
\* password field carries the wrong-password error (and only then does it).
C1_WrongPasswordOfActiveIdentity ==
    ValidatedAs(SignInForms) =>
        /\ (Resolved # None /\ users[Resolved].is_active /\ ~PasswordMatches(Resolved))
               => ErrorsOn("password") = {InvalidCredential}
        /\ ErrorsOn("password") # {}
               => (Resolved # None /\ users[Resolved].is_active
                   /\ ~PasswordMatches(Resolved))

C1_Witness ==
    /\ ValidatedAs(SignInForms)
    /\ Resolved # None /\ users[Resolved].is_active /\ ~PasswordMatches(Resolved)
    /\ Cardinality(Ids) = 2
    /\ form.errors = {<<"password", InvalidCredential>>}

\* C2: in a sign-in form an identifier matching no identity fails with
\* NotFound, an identifier matching an inactive identity fails with
\* NotActivated, and validation succeeds only for an existing, active identity
\* whose password matches.
C2_SignInResolution ==
    ValidatedAs(SignInForms) =>
        /\ Matched = {} => NotFoundOf(form.cls) \in ErrorsOn(IdentField(form.cls))
        /\ (\E i \in Matched : ~users[i].is_active)
               => NotActivated \in ErrorsOn(IdentField(form.cls))
        /\ Succeeded => \E i \in Matched : users[i].is_active /\ PasswordMatches(i)

\* C3: a resend form succeeds only if every activation request of the
\* resolved identity is at least 24 hours old, and it fails with RateLimited
\* whenever the identity's most recent request is younger than 24 hours.
C3_ResendCooldown ==
    (ValidatedAs(ResendForms) /\ Resolved # None /\ activations[Resolved] # {}) =>
        /\ Succeeded => \A t \in activations[Resolved] : now - t >= 24
        /\ (\E t \in activations[Resolved] : now - t < 24)
               => form.errors = {<<IdentField(form.cls), RateLimitedOf(form.cls)>>}

C3_Witness ==
    /\ ValidatedAs(ResendForms)
    /\ Resolved # None
    /\ Cardinality(activations[Resolved]) = 2
    /\ \E t \in activations[Resolved] : now - t >= 24
    /\ form.errors = {<<IdentField(form.cls), RateLimitedOf(form.cls)>>}

\* C4: sign-up validation of an e-mail equal, ignoring case, to the e-mail of
\* an existing identity (active or not) is rejected with an error on the
\* e-mail field.
C4_SignUpDuplicateEmailRejected ==
    (ValidatedAs({"SignUpForm"})
       /\ \E i \in Ids : SameIgnoringCase(users[i].email, form.data.email))
        => ErrorsOn("email") = {EmailTaken}

C4_Witness ==
    /\ ValidatedAs({"SignUpForm"})
    /\ \E i \in Ids : /\ SameIgnoringCase(users[i].email, form.data.email)
                      /\ users[i].email # form.data.email
                      /\ ~users[i].is_active
    /\ form.errors = {<<"email", EmailTaken>>}

\* C5: after any sequence of validated and applied sign-ups and e-mail
\* changes, no two distinct identities have e-mails equal ignoring case.
C5_EmailsUnique ==
    \A i \in Ids : \A j \in Ids :
        i # j => ~SameIgnoringCase(users[i].email, users[j].email)

C5_Witness ==
    /\ form.cls = "ChangeEmailForm" /\ form.phase = "applied"
    /\ Cardinality(Ids) = 2
    /\ users[form.user].email = form.data.email

\* C6: every input matches at most one identity by username, at most one by
\* e-mail ignoring case, and at most one by e-mail-or-username.
C6_LookupsUnique ==
    \A s \in Usernames :
        /\ Cardinality({i \in Ids : users[i].username = s}) <= 1
        /\ Cardinality({i \in Ids : SameIgnoringCase(users[i].email, s)}) <= 1
        /\ Cardinality({i \in Ids : \/ users[i].username = s
                                    \/ SameIgnoringCase(users[i].email, s)}) <= 1

\* C7: a resend form fails with NotFound when nothing matches, fails on the
\* active check when the resolved identity is active (whatever its activation
\* requests), fails with NoActivationRecord when the resolved inactive
\* identity has no request, and so succeeds only for an inactive identity
\* that has a request.
C7_ResendPreconditions ==
    ValidatedAs(ResendForms) =>
        /\ Matched = {}
               => form.errors = {<<IdentField(form.cls), NotFoundOf(form.cls)>>}
        /\ (Resolved # None /\ users[Resolved].is_active)
               => /\ Cardinality(form.errors) = 1
                  /\ ErrorsOn(IdentField(form.cls))
                       \cap {NotFoundOf(form.cls), NoActivationRecordOf(form.cls),
                             RateLimitedOf(form.cls)} = {}
        /\ (Resolved # None /\ ~users[Resolved].is_active /\ activations[Resolved] = {})
               => form.errors = {<<IdentField(form.cls), NoActivationRecordOf(form.cls)>>}
        /\ Succeeded => /\ Resolved # None
                        /\ ~users[Resolved].is_active
                        /\ activations[Resolved] # {}

C7_Witness ==
    /\ ValidatedAs(ResendForms)
    /\ Resolved # None /\ ~users[Resolved].is_active /\ activations[Resolved] = {}
    /\ form.errors = {<<IdentField(form.cls), NoActivationRecordOf(form.cls)>>}

DeclaredFields(cls) ==
    CASE cls \in SignInForms -> {IdentField(cls), "password", "remember_me"}
      [] cls = "SignUpForm" ->
            {"email", "username", "first_name", "last_name", "password1", "password2"}
      [] cls = "ChangePasswordForm" -> {"old_password", "new_password1", "new_password2"}
      [] cls = "ChangeProfileForm" -> {"first_name", "last_name"}
      [] OTHER -> {IdentField(cls)}

\* C8: validating a form leaves the identity store and the activation store
\* as they were and returns a form whose every error is attached to a
\* declared field of that form: a wrong password to the password field, every
\* other rejection to the field that was being validated.
C8_FieldScopedErrors ==
    [][(form = NoForm /\ form'.phase = "validated") =>
          /\ users' = users /\ activations' = activations
          /\ \A e \in form'.errors :
                /\ e[1] \in DeclaredFields(form'.cls)
                /\ e[2] # NoError
                /\ (e[2] = InvalidCredential) <=> (e[1] = "password")
                /\ e[2] = UsernameTaken <=> (form'.cls = "SignUpForm" /\ e[1] = "username")
      ]_vars

C8_Witness ==
    /\ ValidatedAs({"ChangeEmailForm"})
    /\ form.errors = {<<"email", EmailTaken>>}

\* C9: in a form that uses the user cache, the cache is unset when the
\* identifier was rejected and otherwise holds an identity the identifier
\* matches, in the state the operation requires (active for sign-in, restore
\* and remind; inactive with a request at least 24 hours old for resend);
\* sign-in checks the password against the cached identity and reports no
\* password error when the cache is unset.
C9_UserCache ==
    /\ form.cls \notin UserCacheForms => form.user_cache = None
    /\ ValidatedAs(UserCacheForms) =>
        /\ ErrorsOn(IdentField(form.cls)) # {} => form.user_cache = None
        /\ ErrorsOn(IdentField(form.cls)) = {} =>
              /\ form.user_cache \in Matched
              /\ form.cls \notin ResendForms => users[form.user_cache].is_active
              /\ form.cls \in ResendForms =>
                    /\ ~users[form.user_cache].is_active
                    /\ \E t \in activations[form.user_cache] : now - t >= 24
        /\ form.cls \in SignInForms =>
              /\ form.user_cache = None => ErrorsOn("password") = {}
              /\ form.user_cache # None =>
                    (ErrorsOn("password") = {} <=> PasswordMatches(form.user_cache))

C9_Witness ==
    /\ ValidatedAs({"SignInViaUsernameForm"})
    /\ form.user_cache # None
    /\ users[form.user_cache].username = form.data.username
    /\ form.errors = {<<"password", InvalidCredential>>}

\* C10: change-e-mail validation for user U succeeds exactly when the
\* submitted e-mail differs from U's current e-mail and no identity other
\* than U has an e-mail equal to it ignoring case.
C10_ChangeEmail ==
    ValidatedAs({"ChangeEmailForm"}) =>
        LET same == form.data.email = users[form.user].email
            taken == \E j \in Ids \ {form.user} :
                         SameIgnoringCase(users[j].email, form.data.email)
        IN  /\ same => form.errors = {<<"email", SameEmail>>}
            /\ taken => ErrorsOn("email") # {}
            /\ (~same /\ taken) => form.errors = {<<"email", EmailTaken>>}
            /\ Succeeded <=> (~same /\ ~taken)

C10_Witness ==
    /\ ValidatedAs({"ChangeEmailForm"})
    /\ Succeeded
    /\ Cardinality(Ids) = 2
    /\ form.data.email # users[form.user].email
    /\ SameIgnoringCase(form.data.email, users[form.user].email)
====
